---- MODULE Spec2Model ----
(***************************************************************************)
(* A model of the AEBS supervisor of manual_control.py: the background     *)
(* evaluation loop AEBS.test (thread_2), the game loop that feeds it       *)
(* (KeyboardControl.parse_events, HUD.tick), the teardown of game_loop     *)
(* (World.destroy, World.__del__) and the warning light on the dashboard   *)
(* (Warnleuchte), which HUD.render draws once per frame.  The obstacle     *)
(* sensor (ObstacleSensor), whose record the simulator's sensor thread     *)
(* writes while the warning light reads it, and the stopping-distance      *)
(* formulas of the warning light have specifications of their own.         *)
(*                                                                         *)
(* Distances are kept in tenths of a distance unit, so the thresholds 4, 3 *)
(* and 2 of AEBS.test read 40, 30 and 20 and the readings 5, 3.5, 2.5, 1.5 *)
(* read 50, 35, 25, 15.  Speeds are in km/h.                               *)
(*                                                                         *)
(* Each statement of AEBS.test (a loop test, or an `if` with its body) is  *)
(* one step of the thread; the steps of the main thread interleave with    *)
(* them freely, as the interpreter switches threads between statements.    *)
(***************************************************************************)
EXTENDS Integers, Sequences, FiniteSets, TLC

VARIABLES
    g_interrupt,      \* global g_interrupt (manual_control.py:157)
    g_player_action,  \* global g_player_action (manual_control.py:158)
    cve,              \* World.constant_velocity_enabled
    active,           \* AEBS.active
    speed,            \* AEBS.speed
    distance,         \* AEBS.distance (None until the first refresh)
    action,           \* AEBS.action, the stage: 0 Idle, 1 Alerting, 2 Braking-pending, 3 Holding
    tpc,              \* position of thread_2 in AEBS.test (source line of its next statement)
    mpc,              \* position of the main thread in game_loop
    playerAlive,      \* FALSE once World.destroy has destroyed the player vehicle
    brake,            \* the brake command last applied to the player vehicle
    keysHeld,         \* a throttle or steering key was held in the latest _parse_vehicle_keys
    emit,             \* what the latest step of thread_2 played or commanded
    tones,            \* the alert tones thread_2 has played since the stage was last Idle, in order
    togRun,           \* values of AEBS.active before each of the latest consecutive toggle_aebs calls
    selfTest,         \* outcome of test_aebs in the latest of those calls ("none" if there is none)
    velocity,         \* speed of the player vehicle (km/h), what world.player.get_velocity() gives
    show_info,        \* HUD._show_info
    gear,             \* KeyboardControl._control.gear
    reverse,          \* world.player.get_control().reverse
    worldRef,         \* Warnleuchte.__world: "none", "no_aebs" (a world whose aebs is None) or "ok"
    zustand,          \* Warnleuchte.__zustand, the lamp state
    displayChecked,   \* Warnleuchte.__displayChecked
    displayCheckedTicker,  \* Warnleuchte.__displayCheckedTicker
    painted,          \* what the latest render drew: "check" (a self-test step), "derived" or "none"
    currentAebsDistance,   \* the distance the latest classification compared (None if it compared none)
    lampCalls,        \* the supervisor, sensor and vehicle methods the latest render called
    current_obstacle, \* ObstacleSensor.__current_obstacle: <<>> for the list [], <<r>> for the dict r
    event,            \* the latest obstacle event: whether its other actor is static, and its distance
    obstacle_sensor_callback_counter,  \* ObstacleSensor.__obstacle_sensor_callback_counter
    clock,            \* time.time(), in seconds
    rpc,              \* position of the caller of getCurrentObstacleDictance (source line; "idle" outside)
    maxAlter,         \* its parameter maxAlterDesHindernissesInMillis
    obsDistance,      \* its local `distance`
    myTimeStamp,      \* its local myTimeStamp
    currentObstacleDistance,  \* what it returned to the warning light (L740)
    distanceOf,       \* frame of the observation its local distance was read from (0: none)
    stampOf,          \* frame of the observation its local myTimeStamp was read from (0: none)
    atCall,           \* the record as it was when the call began
    started,          \* restart harness: where each thread started on AEBS.test is, in the order of the starts; world.thread_2 is the last
    joined,           \* restart harness: the threads (indices of started) that were joined
    semantic_image,   \* vision harness: the semantic image, rows of pixel tags (pixel[2])
    lead_width,       \* vision harness: self.lead.bounding_box.extent.x * 2, the lead vehicle's width
    vision,           \* vision harness: what get_distance returned, and the global g_distance
    envSpeed,         \* envelope harness: the speed the formulas are applied to
    envelope,         \* envelope harness: the distances and thresholds computed for envSpeed
    scn,              \* scenario harness: the distance readings to feed, one per evaluation
    fed,              \* scenario harness: number of readings fed so far
    evals,            \* scenario harness: number of evaluations (loop bodies) completed
    frames,           \* indicator harness: render calls since the indicator was fresh or reset
    visited,          \* indicator harness: the lamp states the running self-test has shown, in order
    resets            \* indicator harness: number of reset calls so far

vars == <<g_interrupt, g_player_action, cve, active, speed, distance, action, tpc,
          mpc, playerAlive, brake, keysHeld, emit, tones, togRun, selfTest, velocity,
          show_info, gear, reverse, worldRef, zustand, displayChecked,
          displayCheckedTicker, painted, currentAebsDistance, lampCalls, current_obstacle, event,
          obstacle_sensor_callback_counter, clock, rpc, maxAlter, obsDistance,
          myTimeStamp, currentObstacleDistance, distanceOf, stampOf, atCall,
          started, joined, semantic_image, lead_width, vision, envSpeed, envelope, scn, fed, evals, frames, visited, resets>>

scnVars == <<scn, fed, evals, frames, visited, resets>>

\* The fields of the warning light and what its latest render did.
lampVars == <<zustand, displayChecked, displayCheckedTicker, painted,
              currentAebsDistance, lampCalls>>

\* The obstacle sensor's record and counter, the clock, and a call of
\* getCurrentObstacleDictance in progress.
sensorVars == <<current_obstacle, event, obstacle_sensor_callback_counter, clock, rpc,
                maxAlter, obsDistance, myTimeStamp, currentObstacleDistance,
                distanceOf, stampOf, atCall>>

\* The envelope harness.
envVars == <<envSpeed, envelope>>

\* The vision harness.
visionVars == <<semantic_image, lead_width, vision>>

\* The restart harness.
restartVars == <<started, joined>>

\* What only the specifications of the obstacle sensor, of the envelope, of the
\* vision estimator and of the restarts move.
unitVars == <<sensorVars, envVars, visionVars, restartVars>>

\* AEBS.__init__: self.distance = None; no reading is negative.
None == -1

\* Distance readings (tenths): the no-obstacle sentinel 0 and one value in each
\* band the thresholds of AEBS.test cut out: below 2 (1.5 and 1.8), [2,3), [3,4),
\* 4 and above.
DistValues == {0, 15, 18, 25, 35, 50}

\* Speeds (km/h): standing, below and above the activation speed.
SpeedValues == {0, 10, 20}

\* AEBS.activate_at_speed: `if self.speed >= 15`
ActivationSpeed == 15

\* Longest scenario (number of distance readings) the scenario harness feeds.
MaxFeed == 4

\* Distances the warning light classifies (tenths): none, a distance below the
\* warning thresholds at 20 km/h (1.8), the two thresholds (6.0 and 7.5) and a
\* distance beyond both.
LampDistValues == {0, 18, 60, 75, 80}

\* Warnleuchte.__displayCheck: `ticker = 10`, the length of a self-test step.
ticker == 10

\* Most render calls the indicator harness makes on a fresh or reset indicator.
MaxFrames == 100

\* Most reset calls the indicator harness makes.
MaxResets == 2

\* Distances the obstacle sensor reports (tenths), all positive.
ObstacleDistValues == {60, 80}

\* The obstacle events of a run.
MaxEvents == 2

\* Time (seconds) passes in steps of a second, at most MaxSeconds of them
\* between two long waits, or in one long wait of a thousand seconds.
MaxSeconds == 2

TimeSteps == {1, 1000}

\* The maximal ages a call of getCurrentObstacleDictance is given: the 1000 of
\* the warning light (L740), and 1.
MaxAlterValues == {1, 1000}

\* The restart harness has the operator restart the world at most MaxRestarts
\* times.
MaxRestarts == 2

\* The semantic images of the vision harness have ImageRows rows of ImageCols
\* pixels; a pixel's tag is 10 (vehicle) or 0.
ImageRows == 2

ImageCols == 2

PixelTags == {0, 10}

\* Widths of the lead vehicle (whole distance units).
LeadWidths == {2, 4}

\* L147 FOCAL_LENGTH = 36.66184120297396, in thousandths
FOCAL_LENGTH == 36662

\* The speeds (km/h) the envelope harness applies the formulas to.
MaxSpeed == 130

\* Warnleuchte.__ZUSTAND_*: NotInitialized, Fault, Ready, Disengaged, WarnLow,
\* WarnHigh, Crash.
ZUSTAND_NOT_INIT     == "zustand_not_init"
ZUSTAND_ERROR        == "zustand_error"
ZUSTAND_INIT         == "zustand_init"
ZUSTAND_AUS          == "zustand_aus"
ZUSTAND_WARNUNG_LOW  == "zustand_warnung_low"
ZUSTAND_WARNUNG_HIGH == "zustand_warning_high"
ZUSTAND_UNFALL       == "zustand_unfall"

ZUSTAENDE_LIST == <<ZUSTAND_NOT_INIT, ZUSTAND_ERROR, ZUSTAND_INIT, ZUSTAND_AUS,
                    ZUSTAND_WARNUNG_LOW, ZUSTAND_WARNUNG_HIGH, ZUSTAND_UNFALL>>

WorldRefs == {"none", "no_aebs", "ok"}

GameLoopPcs == {"parse_events", "vehicle_keys", "tick"}

ThreadEnded == tpc \in {"exited", "crashed"}

(***************************************************************************)
(* AEBS.toggle_aebs and AEBS.activate_at_speed, as functions of the fields *)
(* they read.  test_aebs, which both branches of toggle_aebs call, only    *)
(* prints.                                                                 *)
(***************************************************************************)
\* toggle_aebs whose switch-on branch leaves the flag as it is.
toggle_aebs_OnKeeps(a) == IF a THEN ~a ELSE a

toggle_aebs(a) == IF a THEN ~a ELSE ~a

\* L1207-1218 test_aebs, called at the end of toggle_aebs: without effect on
\* the supervisor.  It reports "not active" and returns, or reports the
\* outcome of the system test that the placeholder of L1213-1215 stands for:
\* successful, or failed with an exception, which L1217-1218 catch and print.
test_aebs(a) == IF ~a THEN {"not_active"} ELSE {"successful", "failed"}

\* activate_at_speed without the speed test.
activate_at_speed_AnySpeed(s, a) == IF ~a THEN toggle_aebs(a) ELSE a

\* activate_at_speed with the else branch that L1203-1205 keep in a string:
\* below the activation speed an active supervisor is toggled off.
activate_at_speed_WithElse(s, a) ==
    IF s >= ActivationSpeed
    THEN IF ~a THEN toggle_aebs(a) ELSE a
    ELSE IF a THEN toggle_aebs(a) ELSE a

activate_at_speed(s, a) ==
    IF s >= ActivationSpeed
    THEN IF ~a THEN toggle_aebs(a) ELSE a
    ELSE a

(***************************************************************************)
(* Warnleuchte.__displayCheck: the lamp state the self-test shows when the *)
(* ticker, already incremented, is t; "done" when no range matches and the *)
(* self-test ends.  The range [7*ticker, 8*ticker) is commented out in the *)
(* source.                                                                 *)
(***************************************************************************)
\* The self-test with the commented-out step of L828-831 restored.
displayCheckStep_WithUnfall(t) ==
    IF t >= 0 /\ t < ticker * 2 THEN ZUSTAND_NOT_INIT
    ELSE IF t >= ticker * 2 /\ t < ticker * 3 THEN ZUSTAND_ERROR
    ELSE IF t >= ticker * 3 /\ t < ticker * 4 THEN ZUSTAND_INIT
    ELSE IF t >= ticker * 4 /\ t < ticker * 5 THEN ZUSTAND_AUS
    ELSE IF t >= ticker * 5 /\ t < ticker * 6 THEN ZUSTAND_WARNUNG_LOW
    ELSE IF t >= ticker * 6 /\ t < ticker * 7 THEN ZUSTAND_WARNUNG_HIGH
    ELSE IF t >= ticker * 7 /\ t < ticker * 8 THEN ZUSTAND_UNFALL
    ELSE IF t >= ticker * 8 /\ t < ticker * 9 THEN ZUSTAND_NOT_INIT
    ELSE "done"

\* The self-test with every step twice as long.
displayCheckStep_Slow(t) ==
    IF t >= 0 /\ t < ticker * 4 THEN ZUSTAND_NOT_INIT
    ELSE IF t >= ticker * 4 /\ t < ticker * 6 THEN ZUSTAND_ERROR
    ELSE IF t >= ticker * 6 /\ t < ticker * 8 THEN ZUSTAND_INIT
    ELSE IF t >= ticker * 8 /\ t < ticker * 10 THEN ZUSTAND_AUS
    ELSE IF t >= ticker * 10 /\ t < ticker * 12 THEN ZUSTAND_WARNUNG_LOW
    ELSE IF t >= ticker * 12 /\ t < ticker * 14 THEN ZUSTAND_WARNUNG_HIGH
    ELSE "done"

displayCheckStep(t) ==
    IF t >= 0 /\ t < ticker * 2 THEN ZUSTAND_NOT_INIT
    ELSE IF t >= ticker * 2 /\ t < ticker * 3 THEN ZUSTAND_ERROR
    ELSE IF t >= ticker * 3 /\ t < ticker * 4 THEN ZUSTAND_INIT
    ELSE IF t >= ticker * 4 /\ t < ticker * 5 THEN ZUSTAND_AUS
    ELSE IF t >= ticker * 5 /\ t < ticker * 6 THEN ZUSTAND_WARNUNG_LOW
    ELSE IF t >= ticker * 6 /\ t < ticker * 7 THEN ZUSTAND_WARNUNG_HIGH
    ELSE IF t >= ticker * 8 /\ t < ticker * 9 THEN ZUSTAND_NOT_INIT
    ELSE "done"

(***************************************************************************)
(* Warnleuchte.__aktualisiereZustand, the classification at L746-783, as a *)
(* function of the gear, the refreshed speed v (km/h) and the distance d   *)
(* (tenths).  The stopping distances are kept in thousandths, where they   *)
(* are whole numbers for every whole v: (v/10)*(v/10) is 10*v*v and        *)
(* (v/10)*3 is 300*v.  The factors 1.5 and 1.2 are applied as 15 and 12    *)
(* to ten times the distance, so d <= anhalteWeg * 1.2 reads               *)
(* d * 1000 <= anhalteWeg * 12.                                            *)
(***************************************************************************)
\* The reaction distance with (v / 10) + 3 in place of (v / 10) * 3.
reaktionsweg_Plus3(v) == (100 * v + 3000) \div 2

bremsweg(v)     == (10 * v * v) \div 2
reaktionsweg(v) == (300 * v) \div 2
anhalteWeg(v)   == bremsweg(v) + reaktionsweg(v)

\* The two warning distances with their factors exchanged.
anhalteWegWarnungHigh_AsLow(v) == anhalteWeg(v) * 15

\* The low-urgency threshold with the factor of the high-urgency one.
anhalteWegWarnungLow_AsHigh(v) == anhalteWeg(v) * 12

anhalteWegWarnungLow(v)  == anhalteWeg(v) * 15
anhalteWegWarnungHigh(v) == anhalteWeg(v) * 12

\* L746: `activeSpeed = 15`
activeSpeed == 15

\* L749-783, entered with AEBS.active true.
Klassifiziert(rueckwaertsgang, v, d) ==
    IF rueckwaertsgang THEN ZUSTAND_AUS
    ELSE IF v <= 0 THEN ZUSTAND_INIT
    ELSE IF v < activeSpeed THEN ZUSTAND_INIT
    ELSE IF v >= activeSpeed
         THEN IF d <= 0 THEN ZUSTAND_INIT
              ELSE IF d * 1000 <= anhalteWegWarnungHigh(v) THEN ZUSTAND_WARNUNG_HIGH
              ELSE IF d * 1000 <= anhalteWegWarnungLow(v) THEN ZUSTAND_WARNUNG_LOW
              ELSE IF d * 1000 >= anhalteWegWarnungLow(v) THEN ZUSTAND_INIT
              ELSE ZUSTAND_ERROR
         ELSE ZUSTAND_ERROR

\* The test of L723 never taken.
aebsIsNone_Never(w) == FALSE

\* L719 `self.__world is None` and L723 `self.__world.aebs is None`
worldIsNone(w) == w = "none"
aebsIsNone(w)  == w = "no_aebs"

(***************************************************************************)
(* The conditions of the four escalation statements of AEBS.test.          *)
(***************************************************************************)
\* The brake condition with the double alert's threshold.
BrakeCond_Below3(d, a, pa) == d < 30 /\ a = 2 /\ ~pa

\* The brake condition without its test of the stage.
BrakeCond_AnyStage(d, a, pa) == d < 20 /\ ~pa

\* The release condition without its test of the speed.
ReleaseCond_AnySpeed(a, s, pa) == a = 3 /\ ~pa

\* The full brake also from stage Idle.
BrakeCond_FromIdle(d, a, pa) == d < 20 /\ a \in {0, 2} /\ ~pa

\* The second escalation asking for stage 2.
DoubleCond_WrongStage(d, a, pa) == d < 30 /\ a = 2 /\ ~pa

AlertCond(d, a, pa)   == d < 40 /\ a = 0 /\ ~pa
DoubleCond(d, a, pa)  == d < 30 /\ a = 1 /\ ~pa
BrakeCond(d, a, pa)   == d < 20 /\ a = 2 /\ ~pa
ReleaseCond(a, s, pa) == a = 3 /\ s = 0 /\ ~pa

TypeOK ==
    /\ g_interrupt \in BOOLEAN /\ g_player_action \in BOOLEAN
    /\ cve \in BOOLEAN /\ active \in BOOLEAN
    /\ speed \in SpeedValues
    /\ distance \in DistValues \cup {None}
    /\ action \in 0..3
    /\ tpc \in {"L1162", "L1163", "L1165", "L1168", "L1174", "L1179", "L1182",
                "exited", "crashed"}
    /\ mpc \in GameLoopPcs \cup {"render", "destroy", "del", "join", "done"}
    /\ playerAlive \in BOOLEAN
    /\ brake \in {0, 1}
    /\ keysHeld \in BOOLEAN
    /\ emit \subseteq {"beep", "beep_beep", "disable_cv", "brake1", "brake0"}
    /\ tones \in {<<>>, <<"beep">>, <<"beep", "beep_beep">>}
    /\ velocity \in SpeedValues
    /\ show_info \in BOOLEAN
    /\ gear \in {-1, 0, 1}
    /\ reverse \in BOOLEAN
    /\ worldRef \in WorldRefs
    /\ zustand \in {ZUSTAENDE_LIST[i] : i \in 1..Len(ZUSTAENDE_LIST)}
    /\ displayChecked \in BOOLEAN
    /\ displayCheckedTicker \in 1..(ticker * 9)
    /\ painted \in {"none", "check", "derived"}
    /\ currentAebsDistance \in LampDistValues \cup {None}
    /\ lampCalls \subseteq {"get_current_distance", "get_current_speed",
                            "getCurrentObstacleDictance", "get_control"}
    /\ selfTest \in {"none", "not_active", "successful", "failed"}
    /\ Len(current_obstacle) <= 1
    /\ event.static \in BOOLEAN
    /\ obstacle_sensor_callback_counter \in 0..MaxEvents
    /\ clock \in Nat
    /\ rpc \in {"idle", "L1682", "L1684", "L1691", "L1692", "L741"}
    /\ maxAlter \in MaxAlterValues \cup {None}
    /\ obsDistance \in ObstacleDistValues \cup {None}
    /\ myTimeStamp \in Nat \cup {None}
    /\ currentObstacleDistance \in ObstacleDistValues \cup {0, None}
    /\ distanceOf \in 0..MaxEvents /\ stampOf \in 0..MaxEvents
    /\ Len(atCall) <= 1
    /\ started \in Seq({"L1161", "L1162", "exited", "crashed"})
    /\ joined \subseteq 1..Len(started)
    /\ semantic_image \in [1..ImageRows -> [1..ImageCols -> PixelTags]]
    /\ lead_width \in LeadWidths
    /\ vision \in [returned : Nat \cup {None}, g_distance : Nat]
    /\ envSpeed \in 0..MaxSpeed

(***************************************************************************)
(* The state after World.__init__ and KeyboardControl.__init__: the        *)
(* supervisor is constructed (AEBS.__init__), thread_2 is started and      *)
(* cruise mode is off.  The vehicle stands in neutral, the HUD shows its   *)
(* info panel, and the warning light has the values of its class body      *)
(* (L692-710): no world, NotInitialized, self-test not done, ticker 1.     *)
(***************************************************************************)
\* Warnleuchte, L692-710, and no render so far.
LampFresh ==
    /\ zustand = ZUSTAND_NOT_INIT
    /\ displayChecked = FALSE
    /\ displayCheckedTicker = 1
    /\ painted = "none"
    /\ currentAebsDistance = None
    /\ lampCalls = {}

\* ObstacleSensor, L1666-1678: no record, no callback so far; no call of
\* getCurrentObstacleDictance in progress.
NoEvent == [static |-> FALSE, distance |-> None]

SensorFresh ==
    /\ current_obstacle = <<>>
    /\ event = NoEvent
    /\ obstacle_sensor_callback_counter = 0
    /\ clock = 0
    /\ rpc = "idle"
    /\ maxAlter = None
    /\ obsDistance = None
    /\ myTimeStamp = None
    /\ currentObstacleDistance = None
    /\ distanceOf = 0
    /\ stampOf = 0
    /\ atCall = <<>>

\* No envelope computed.
NoEnvelope == [bremsweg |-> None, reaktionsweg |-> None, anhalteWeg |-> None,
               anhalteWegWarnungLow |-> None, anhalteWegWarnungHigh |-> None]

EnvFresh == envSpeed = 0 /\ envelope = NoEnvelope

\* L241, L339-340: World.__init__ calls restart, which starts the first thread
\* on AEBS.test; nothing is joined.
RestartFresh == started = <<"L1161">> /\ joined = {}

\* L155 g_distance = 0, and no call of get_distance so far; the camera sees no
\* vehicle.
VisionFresh ==
    /\ semantic_image = [r \in 1..ImageRows |-> [c \in 1..ImageCols |-> 0]]
    /\ lead_width = 2
    /\ vision = [returned |-> None, g_distance |-> 0]

CoreInit ==
    /\ g_interrupt = FALSE
    /\ g_player_action = FALSE
    /\ cve = FALSE
    /\ active = TRUE
    /\ speed = 0
    /\ distance = None
    /\ action = 0
    /\ tpc = "L1162"
    /\ mpc = "parse_events"
    /\ playerAlive = TRUE
    /\ brake = 0
    /\ keysHeld = FALSE
    /\ emit = {}
    /\ tones = <<>>
    /\ togRun = <<>>
    /\ selfTest = "none"
    /\ velocity = 0
    /\ show_info = TRUE
    /\ gear = 0
    /\ reverse = FALSE
    /\ worldRef = "none"
    /\ LampFresh
    /\ SensorFresh
    /\ EnvFresh
    /\ VisionFresh
    /\ RestartFresh

\* No harness is at work.
NoHarness ==
    /\ scn = <<>> /\ fed = 0 /\ evals = 0
    /\ frames = 0 /\ visited = <<>> /\ resets = 0

Init == CoreInit /\ NoHarness

(***************************************************************************)
(* AEBS.test, the body of thread_2.                                        *)
(***************************************************************************)

\* The tones heard since the stage was last Idle, after a step of thread_2
\* that played or commanded e and left the stage at a: L1166 plays the beep
\* once, L1169-1171 play it twice.
Heard(t, e, a) ==
    IF a = 0 THEN <<>>
    ELSE IF "beep" \in e THEN Append(t, "beep")
    ELSE IF "beep_beep" \in e THEN Append(t, "beep_beep")
    ELSE t

\* What thread_2 never writes.
threadFrame == <<g_interrupt, g_player_action, active, speed, distance, mpc,
                 playerAlive, keysHeld, togRun, selfTest, velocity, show_info, gear,
                 reverse, worldRef, lampVars, unitVars>>

\* A call on the player vehicle returns, or, on a destroyed vehicle, may raise
\* (the simulator's client library decides).
CallOutcomes == IF playerAlive THEN {"returns"} ELSE {"returns", "raises"}

\* carla.Vehicle.apply_control(VehicleControl(brake=b)) on the player.
Applied(b) == IF playerAlive THEN b ELSE brake

\* L1162: while not g_interrupt
Test_L1162 ==
    /\ tpc = "L1162"
    /\ tpc' = IF ~g_interrupt THEN "L1163" ELSE "exited"
    /\ emit' = {}
    /\ UNCHANGED <<cve, action, brake>>
    /\ UNCHANGED threadFrame
    /\ tones' = Heard(tones, emit', action')

\* The inner loop entered whatever the cruise flag says.
Test_L1163_Ungated ==
    /\ tpc = "L1163"
    /\ tpc' = "L1165"
    /\ emit' = {}
    /\ UNCHANGED <<cve, action, brake>>
    /\ UNCHANGED threadFrame
    /\ tones' = Heard(tones, emit', action')

\* L1163: while self.world.constant_velocity_enabled
Test_L1163 ==
    /\ tpc = "L1163"
    /\ tpc' = IF cve THEN "L1165" ELSE "L1162"
    /\ emit' = {}
    /\ UNCHANGED <<cve, action, brake>>
    /\ UNCHANGED threadFrame
    /\ tones' = Heard(tones, emit', action')

\* L1164-1167: the print formats self.distance; `self.distance < 4` on the
\* initial None raises TypeError, which ends the thread.
\* if self.distance < 4 and self.action == 0 and not g_player_action: beep; action += 1
Test_L1165 ==
    /\ tpc = "L1165"
    /\ IF distance = None
       THEN /\ tpc' = "crashed"
            /\ emit' = {}
            /\ UNCHANGED action
       ELSE /\ tpc' = "L1168"
            /\ IF AlertCond(distance, action, g_player_action)
               THEN emit' = {"beep"} /\ action' = action + 1
               ELSE emit' = {} /\ UNCHANGED action
    /\ UNCHANGED <<cve, brake>>
    /\ UNCHANGED threadFrame
    /\ tones' = Heard(tones, emit', action')

\* L1168-1173: if self.distance < 3 and self.action == 1 and not g_player_action:
\*             beep; sleep(.1); beep; action += 1
Test_L1168 ==
    /\ tpc = "L1168"
    /\ IF distance = None
       THEN /\ tpc' = "crashed"
            /\ emit' = {}
            /\ UNCHANGED action
       ELSE /\ tpc' = "L1174"
            /\ IF DoubleCond(distance, action, g_player_action)
               THEN emit' = {"beep_beep"} /\ action' = action + 1
               ELSE emit' = {} /\ UNCHANGED action
    /\ UNCHANGED <<cve, brake>>
    /\ UNCHANGED threadFrame
    /\ tones' = Heard(tones, emit', action')

\* L1174-1178: if self.distance < 2 and self.action == 2 and not g_player_action:
\*             disable_constant_velocity(); constant_velocity_enabled = False;
\*             apply_control(brake=1); action += 1
Test_L1174 ==
    /\ tpc = "L1174"
    /\ IF distance = None
       THEN /\ tpc' = "crashed"
            /\ emit' = {}
            /\ UNCHANGED <<cve, action, brake>>
       ELSE IF BrakeCond(distance, action, g_player_action)
            THEN \E outcome \in CallOutcomes :
                    IF outcome = "raises"
                    THEN /\ tpc' = "crashed"
                         /\ emit' = {"disable_cv"}
                         /\ UNCHANGED <<cve, action, brake>>
                    ELSE /\ tpc' = "L1179"
                         /\ emit' = {"disable_cv", "brake1"}
                         /\ cve' = FALSE
                         /\ brake' = Applied(1)
                         /\ action' = action + 1
            ELSE /\ tpc' = "L1179"
                 /\ emit' = {}
                 /\ UNCHANGED <<cve, action, brake>>
    /\ UNCHANGED threadFrame
    /\ tones' = Heard(tones, emit', action')

\* L1179-1181: if self.action == 3 and self.speed == 0 and not g_player_action:
\*             apply_control(brake=0); action = 0
Test_L1179 ==
    /\ tpc = "L1179"
    /\ IF ReleaseCond(action, speed, g_player_action)
       THEN \E outcome \in CallOutcomes :
               IF outcome = "raises"
               THEN /\ tpc' = "crashed"
                    /\ emit' = {"brake0"}
                    /\ UNCHANGED <<action, brake>>
               ELSE /\ tpc' = "L1182"
                    /\ emit' = {"brake0"}
                    /\ brake' = Applied(0)
                    /\ action' = 0
       ELSE /\ tpc' = "L1182"
            /\ emit' = {}
            /\ UNCHANGED <<action, brake>>
    /\ UNCHANGED cve
    /\ UNCHANGED threadFrame
    /\ tones' = Heard(tones, emit', action')

\* L1182-1184: if g_player_action: apply_control(brake=0); action = 0
Test_L1182 ==
    /\ tpc = "L1182"
    /\ IF g_player_action
       THEN \E outcome \in CallOutcomes :
               IF outcome = "raises"
               THEN /\ tpc' = "crashed"
                    /\ emit' = {"brake0"}
                    /\ UNCHANGED <<action, brake>>
               ELSE /\ tpc' = "L1163"
                    /\ emit' = {"brake0"}
                    /\ brake' = Applied(0)
                    /\ action' = 0
       ELSE /\ tpc' = "L1163"
            /\ emit' = {}
            /\ UNCHANGED <<action, brake>>
    /\ UNCHANGED cve
    /\ UNCHANGED threadFrame
    /\ tones' = Heard(tones, emit', action')

test ==
    \/ Test_L1162 \/ Test_L1163 \/ Test_L1165 \/ Test_L1168
    \/ Test_L1174 \/ Test_L1179 \/ Test_L1182

(***************************************************************************)
(* The main thread: one frame of game_loop is parse_events (the pending    *)
(* key events, then _parse_vehicle_keys and apply_control) followed by     *)
(* World.tick -> HUD.tick and World.render -> Warnleuchte.render.  The     *)
(* keyboard is modelled with the U key, the CTRL+W key, the quit keys, the *)
(* throttle and steering keys and, in LoopSpec, the F1 and Q keys; the     *)
(* vehicle is driven manually (no autopilot).  In Spec the HUD's info      *)
(* panel stays shown and the gear forward, as both are at start, and the   *)
(* frames go without World.render.  World.restart is not part of the       *)
(* model.                                                                  *)
(***************************************************************************)

\* What the steps of the main thread below leave alone.
mainFrame == <<action, tpc, emit, tones, unitVars, scnVars>>

\* What the operator and the simulator set, and the warning light's world.
hudVars == <<velocity, show_info, gear, reverse, worldRef>>

\* reset leaving the ticker where it is.
reset_KeepsTicker ==
    /\ displayChecked' = FALSE
    /\ UNCHANGED <<displayCheckedTicker, zustand, painted, currentAebsDistance,
                   lampCalls>>

\* Warnleuchte.reset, L792-795 (__displayCheckedStatus, which it also sets, is
\* read nowhere).
reset ==
    /\ displayChecked' = FALSE
    /\ displayCheckedTicker' = 1
    /\ UNCHANGED <<zustand, painted, currentAebsDistance, lampCalls>>

\* The latest two entries of the run of consecutive toggle_aebs calls.
Logged(run, a) == IF Len(run) = 2 THEN <<run[2], a>> ELSE Append(run, a)

\* L438-441: KEYUP of K_u: world.aebs.toggle_aebs(), and
\* `if world.hud.warnleuchte is not None: world.hud.warnleuchte.reset(...)`;
\* HUD.warnleuchte is set by the first HUD.tick, together with the light's world.
KeyU ==
    /\ mpc = "parse_events"
    /\ active' = toggle_aebs(active)
    /\ togRun' = Logged(togRun, active)
    /\ selfTest' \in test_aebs(active')
    /\ IF worldRef # "none" THEN reset ELSE UNCHANGED lampVars
    /\ UNCHANGED <<g_interrupt, g_player_action, cve, speed, distance, mpc,
                   playerAlive, brake, keysHeld>>
    /\ UNCHANGED hudVars
    /\ UNCHANGED mainFrame

\* L449-450: KEYUP of K_F1: world.hud.toggle_info()
KeyF1 ==
    /\ mpc = "parse_events"
    /\ show_info' = ~show_info
    /\ togRun' = <<>>
    /\ selfTest' = "none"
    /\ UNCHANGED <<g_interrupt, g_player_action, cve, active, speed, distance, mpc,
                   playerAlive, brake, keysHeld>>
    /\ UNCHANGED <<velocity, gear, reverse, worldRef, lampVars>>
    /\ UNCHANGED mainFrame

\* L552-553: KEYUP of K_q: self._control.gear = 1 if self._control.reverse else -1
KeyQ ==
    /\ mpc = "parse_events"
    /\ gear' = IF reverse THEN 1 ELSE -1
    /\ togRun' = <<>>
    /\ selfTest' = "none"
    /\ UNCHANGED <<g_interrupt, g_player_action, cve, active, speed, distance, mpc,
                   playerAlive, brake, keysHeld>>
    /\ UNCHANGED <<velocity, show_info, reverse, worldRef, lampVars>>
    /\ UNCHANGED mainFrame

\* L1856-1857: the simulator advances between two frames (sim_world.tick()) and
\* the player vehicle's speed becomes another one.
Drive ==
    /\ mpc = "parse_events"
    /\ velocity' \in SpeedValues \ {velocity}
    /\ UNCHANGED <<g_interrupt, g_player_action, cve, active, speed, distance, mpc,
                   playerAlive, brake, keysHeld, togRun, selfTest>>
    /\ UNCHANGED <<show_info, gear, reverse, worldRef, lampVars>>
    /\ UNCHANGED mainFrame

\* L474-483: KEYUP of K_w with CTRL.  With cruise mode on, the handler calls
\* world.player.disable_constant_velocity() and then
\* world.player_2.disalbe_constant_velocity(), which raises AttributeError before
\* constant_velocity_enabled is cleared; the exception leaves parse_events and
\* the game loop for the finally block of game_loop.
KeyCtrlW ==
    /\ mpc = "parse_events"
    /\ IF cve
       THEN mpc' = "destroy" /\ UNCHANGED cve
       ELSE cve' = TRUE /\ UNCHANGED mpc
    /\ togRun' = <<>>
    /\ selfTest' = "none"
    /\ UNCHANGED <<g_interrupt, g_player_action, active, speed, distance,
                   playerAlive, brake, keysHeld>>
    /\ UNCHANGED <<hudVars, lampVars>>
    /\ UNCHANGED mainFrame

\* L433-437: pygame.QUIT or the quit shortcut: parse_events returns True and
\* game_loop returns through its finally block.
Quit ==
    /\ mpc = "parse_events"
    /\ mpc' = "destroy"
    /\ togRun' = <<>>
    /\ selfTest' = "none"
    /\ UNCHANGED <<g_interrupt, g_player_action, cve, active, speed, distance,
                   playerAlive, brake, keysHeld>>
    /\ UNCHANGED <<hudVars, lampVars>>
    /\ UNCHANGED mainFrame

\* L432: the for loop over pygame.event.get() ends.
EndEvents ==
    /\ mpc = "parse_events"
    /\ mpc' = "vehicle_keys"
    /\ togRun' = <<>>
    /\ selfTest' = "none"
    /\ UNCHANGED <<g_interrupt, g_player_action, cve, active, speed, distance,
                   playerAlive, brake, keysHeld>>
    /\ UNCHANGED <<hudVars, lampVars>>
    /\ UNCHANGED mainFrame

\* L619-649 _parse_vehicle_keys: `g_player_action = True` under a held key
\* assigns a local name (the function has no `global g_player_action`), so
\* the global keeps its value.  No brake key is held: _control.brake = 0.
parse_vehicle_keys(held, pa) == pa

\* L599-617: not in autopilot: _parse_vehicle_keys(pygame.key.get_pressed(), ...),
\* self._control.reverse = self._control.gear < 0, and
\* world.player.apply_control(self._control), whose brake is 0.
VehicleKeys ==
    /\ mpc = "vehicle_keys"
    /\ \E held \in BOOLEAN :
          /\ keysHeld' = held
          /\ g_player_action' = parse_vehicle_keys(held, g_player_action)
    /\ reverse' = (gear < 0)
    /\ brake' = 0
    /\ mpc' = "tick"
    /\ UNCHANGED <<g_interrupt, cve, active, speed, distance, playerAlive, togRun,
                   selfTest>>
    /\ UNCHANGED <<velocity, show_info, gear, worldRef, lampVars>>
    /\ UNCHANGED mainFrame

\* L942-965 HUD.tick, after which the main thread is at `then`.  The first tick
\* makes the warning light and gives it the world (L944-946); with the info
\* panel hidden the method returns at L949-950; otherwise
\* world.aebs.get_current_speed(world) (L1186-1192: speed from the vehicle's
\* velocity, then activate_at_speed) and world.aebs.get_current_distance(world)
\* (L1194-1196: self.distance = g_distance, the value the vision estimator's
\* callback wrote last).
HudTickThen(then) ==
    /\ mpc = "tick"
    /\ worldRef' = "ok"
    /\ IF show_info
       THEN \E g_distance \in DistValues :
               /\ speed' = velocity
               /\ active' = activate_at_speed(velocity, active)
               /\ distance' = g_distance
       ELSE UNCHANGED <<speed, active, distance>>
    /\ togRun' = IF active' # active THEN <<active>> ELSE <<>>
    /\ selfTest' \in IF active' # active THEN test_aebs(active') ELSE {"none"}
    /\ mpc' = then
    /\ UNCHANGED <<g_interrupt, g_player_action, cve, playerAlive, brake, keysHeld>>
    /\ UNCHANGED <<velocity, show_info, gear, reverse, lampVars>>
    /\ UNCHANGED mainFrame

\* World.tick of a frame whose World.render is left out: with the info panel
\* shown, what render's classification writes to the supervisor (a refresh of
\* speed and distance while it is active) HUD.tick has written in the same frame.
HudTick == HudTickThen("parse_events")

\* World.tick of a frame that goes on to World.render.
HudTickRender == HudTickThen("render")

(***************************************************************************)
(* Warnleuchte.render, which World.render -> HUD.render (L1065-1066) calls *)
(* once per frame with the pygame display.                                 *)
(***************************************************************************)

\* L797-839 __displayCheck, called while __displayChecked is False: the ticker
\* is incremented and the step of its range is painted; when no range matches,
\* the self-test is marked done and nothing is painted.
displayCheck ==
    /\ displayCheckedTicker' = displayCheckedTicker + 1
    /\ IF displayCheckStep(displayCheckedTicker') # "done"
       THEN /\ zustand' = displayCheckStep(displayCheckedTicker')
            /\ painted' = "check"
            /\ UNCHANGED displayChecked
       ELSE /\ displayChecked' = TRUE
            /\ painted' = "none"
            /\ UNCHANGED zustand
    /\ currentAebsDistance' = None
    /\ lampCalls' = {}
    /\ UNCHANGED <<active, speed, distance>>

\* L741-744: the distance the classification compares is the obstacle sensor's
\* answer if that is positive, and g_least_distance otherwise.
currentAebsDistanceOf(obstacleDistance, g_least_distance) ==
    IF obstacleDistance > 0 THEN obstacleDistance ELSE g_least_distance

\* L718-790 __aktualisiereZustand.  With the world and its supervisor known and
\* the supervisor active, it refreshes the supervisor's distance and speed
\* (L733-734), takes the obstacle sensor's distance if that is positive and
\* g_least_distance otherwise (L740-744), reads the gear (L747) and classifies.
\* The obstacle sensor's answer and g_least_distance (the distance to the
\* nearest vehicle, which HUD.tick computes from the actors' locations) are
\* inputs.
aktualisiereZustand ==
    IF worldIsNone(worldRef)
    THEN /\ zustand' = ZUSTAND_ERROR
         /\ currentAebsDistance' = None
         /\ lampCalls' = {}
         /\ UNCHANGED <<active, speed, distance>>
    ELSE IF aebsIsNone(worldRef)
    THEN /\ zustand' = ZUSTAND_ERROR
         /\ currentAebsDistance' = None
         /\ lampCalls' = {}
         /\ UNCHANGED <<active, speed, distance>>
    ELSE IF active = TRUE
    THEN \E g_distance \in DistValues, obstacleDistance \in LampDistValues,
            g_least_distance \in LampDistValues :
            /\ distance' = g_distance
            /\ speed' = velocity
            /\ active' = activate_at_speed(velocity, active)
            /\ currentAebsDistance' =
                   currentAebsDistanceOf(obstacleDistance, g_least_distance)
            /\ zustand' = Klassifiziert(reverse, speed', currentAebsDistance')
            /\ lampCalls' = {"get_current_distance", "get_current_speed",
                             "getCurrentObstacleDictance", "get_control"}
    ELSE /\ zustand' = ZUSTAND_AUS
         /\ currentAebsDistance' = None
         /\ lampCalls' = {}
         /\ UNCHANGED <<active, speed, distance>>

\* L847-853 render, with a display
Render ==
    /\ mpc = "render"
    /\ IF displayChecked = TRUE
       THEN /\ aktualisiereZustand
            /\ painted' = "derived"
            /\ UNCHANGED <<displayChecked, displayCheckedTicker>>
       ELSE displayCheck
    /\ mpc' = "parse_events"
    /\ UNCHANGED <<g_interrupt, g_player_action, cve, playerAlive, brake, keysHeld,
                   togRun, selfTest>>
    /\ UNCHANGED hudVars
    /\ UNCHANGED <<action, tpc, emit, tones, unitVars>>

\* L1865-1866 and L389-395: world.destroy() destroys the player vehicles
\* (the joins in World.destroy are commented out).
Destroy ==
    /\ mpc = "destroy"
    /\ playerAlive' = FALSE
    /\ mpc' = "del"
    /\ UNCHANGED <<g_interrupt, g_player_action, cve, active, speed, distance,
                   brake, keysHeld, togRun, selfTest>>
    /\ UNCHANGED <<hudVars, lampVars>>
    /\ UNCHANGED mainFrame

\* L1867 and L397-399: world.__del__() sets g_interrupt
Del ==
    /\ mpc = "del"
    /\ g_interrupt' = TRUE
    /\ mpc' = "join"
    /\ UNCHANGED <<g_player_action, cve, active, speed, distance, playerAlive,
                   brake, keysHeld, togRun, selfTest>>
    /\ UNCHANGED <<hudVars, lampVars>>
    /\ UNCHANGED mainFrame

\* L400-401: self.thread_2.join() returns once thread_2 has ended.
Join ==
    /\ mpc = "join"
    /\ ThreadEnded
    /\ mpc' = "done"
    /\ UNCHANGED <<g_interrupt, g_player_action, cve, active, speed, distance,
                   playerAlive, brake, keysHeld, togRun, selfTest>>
    /\ UNCHANGED <<hudVars, lampVars>>
    /\ UNCHANGED mainFrame

\* The steps the main thread takes without the operator.
Frame == EndEvents \/ VehicleKeys \/ HudTick \/ Destroy \/ Del \/ Join

Next ==
    \/ Drive
    \/ Test_L1162 /\ UNCHANGED scnVars
    \/ Test_L1163 /\ UNCHANGED scnVars
    \/ Test_L1165 /\ UNCHANGED scnVars
    \/ Test_L1168 /\ UNCHANGED scnVars
    \/ Test_L1174 /\ UNCHANGED scnVars
    \/ Test_L1179 /\ UNCHANGED scnVars
    \/ Test_L1182 /\ UNCHANGED scnVars
    \/ KeyU
    \/ KeyCtrlW
    \/ Quit
    \/ EndEvents
    \/ VehicleKeys
    \/ HudTick
    \/ Destroy
    \/ Del
    \/ Join

Spec == Init /\ [][Next]_vars

\* thread_2 keeps being scheduled while it can run, and the main thread keeps
\* running its frames and its teardown; the operator's keys are under no
\* obligation.
FairSpec == Spec /\ WF_vars(test /\ UNCHANGED scnVars) /\ WF_vars(Frame)

(***************************************************************************)
(* The scenario harness: AEBS.test alone, with cruise mode engaged, no     *)
(* driver override and a fixed speed, observing a given sequence of        *)
(* distance readings, one per evaluation of the loop body: the reading is  *)
(* refreshed (AEBS.get_current_distance, L1194-1196) each time the thread  *)
(* is back at the loop test of L1163.                                      *)
(***************************************************************************)
Feeds == UNION {[1..n -> DistValues] : n \in 1..MaxFeed}

ScnInit ==
    /\ g_interrupt = FALSE
    /\ g_player_action = FALSE
    /\ cve = TRUE
    /\ active = TRUE
    /\ speed \in SpeedValues
    /\ distance = None
    /\ action = 0
    /\ tpc = "L1162"
    /\ mpc = "parse_events"
    /\ playerAlive = TRUE
    /\ brake = 0
    /\ keysHeld = FALSE
    /\ emit = {}
    /\ tones = <<>>
    /\ togRun = <<>>
    /\ selfTest = "none"
    /\ velocity = speed
    /\ show_info = TRUE
    /\ gear = 0
    /\ reverse = FALSE
    /\ worldRef = "none"
    /\ LampFresh
    /\ SensorFresh
    /\ EnvFresh
    /\ VisionFresh
    /\ RestartFresh
    /\ scn \in Feeds
    /\ fed = 0
    /\ evals = 0
    /\ frames = 0 /\ visited = <<>> /\ resets = 0

\* self.distance = g_distance, with the scenario's next reading
ScnFeed ==
    /\ tpc = "L1163"
    /\ fed = evals
    /\ fed < Len(scn)
    /\ distance' = scn[fed + 1]
    /\ fed' = fed + 1
    /\ UNCHANGED <<g_interrupt, g_player_action, cve, active, speed, action, tpc,
                   mpc, playerAlive, brake, keysHeld, emit, tones, togRun, selfTest, scn,
                   evals>>
    /\ UNCHANGED <<hudVars, lampVars, unitVars, frames, visited, resets>>

\* A step of thread_2; the loop test of L1163 waits for the evaluation's reading.
ScnTest ==
    /\ tpc = "L1163" => fed > evals
    /\ test
    /\ evals' = IF tpc = "L1182" /\ tpc' = "L1163" THEN evals + 1 ELSE evals
    /\ UNCHANGED <<scn, fed, frames, visited, resets>>

ScnNext == ScnFeed \/ ScnTest

ScnSpec == ScnInit /\ [][ScnNext]_vars

(***************************************************************************)
(* The game loop with the warning light: whole frames (parse_events,       *)
(* World.tick, World.render) with the keys U, F1 and Q and a vehicle that  *)
(* changes its speed between frames.  Cruise mode is never engaged here,   *)
(* so thread_2 only repeats its two loop tests, which write nothing, and   *)
(* its steps are left out; so is the teardown.                             *)
(***************************************************************************)
LoopNext ==
    \/ KeyU
    \/ KeyF1
    \/ KeyQ
    \/ Drive
    \/ EndEvents
    \/ VehicleKeys
    \/ HudTickRender
    \/ Render /\ UNCHANGED scnVars

LoopSpec == Init /\ [][LoopNext]_vars

(***************************************************************************)
(* The indicator harness: the warning light alone, fresh, with a world     *)
(* reference, a supervisor state, a gear and a vehicle speed that are      *)
(* drawn at the start; the harness calls render, at most MaxFrames times   *)
(* on a fresh or reset light, and reset between two renders.               *)
(***************************************************************************)
LampInit ==
    /\ g_interrupt = FALSE
    /\ g_player_action = FALSE
    /\ cve = FALSE
    /\ active \in BOOLEAN
    /\ velocity \in SpeedValues
    /\ speed = velocity
    /\ distance = None
    /\ action = 0
    /\ tpc = "L1162"
    /\ mpc = "render"
    /\ playerAlive = TRUE
    /\ brake = 0
    /\ keysHeld = FALSE
    /\ emit = {}
    /\ tones = <<>>
    /\ togRun = <<>>
    /\ selfTest = "none"
    /\ show_info = TRUE
    /\ reverse \in BOOLEAN
    /\ gear = IF reverse THEN -1 ELSE 0
    /\ worldRef \in WorldRefs
    /\ LampFresh
    /\ SensorFresh
    /\ EnvFresh
    /\ VisionFresh
    /\ RestartFresh
    /\ scn = <<>> /\ fed = 0 /\ evals = 0
    /\ frames = 0 /\ visited = <<>> /\ resets = 0

\* The lamp states shown so far by the running self-test, without repetitions.
Shown(seen, z) ==
    IF seen # <<>> /\ seen[Len(seen)] = z THEN seen ELSE Append(seen, z)

\* render(display)
LampRender ==
    /\ frames < MaxFrames
    /\ Render
    /\ frames' = frames + 1
    /\ visited' = IF painted' = "check" THEN Shown(visited, zustand') ELSE visited
    /\ UNCHANGED <<scn, fed, evals, resets>>

\* The harness comes back for the next frame.
LampAgain ==
    /\ mpc = "parse_events"
    /\ mpc' = "render"
    /\ UNCHANGED <<g_interrupt, g_player_action, cve, active, speed, distance,
                   action, tpc, playerAlive, brake, keysHeld, emit, tones, togRun, selfTest>>
    /\ UNCHANGED <<hudVars, lampVars, unitVars, scnVars>>

\* reset()
LampReset ==
    /\ mpc = "parse_events"
    /\ resets < MaxResets
    /\ reset
    /\ frames' = 0
    /\ visited' = <<>>
    /\ resets' = resets + 1
    /\ UNCHANGED <<g_interrupt, g_player_action, cve, active, speed, distance,
                   action, tpc, mpc, playerAlive, brake, keysHeld, emit, tones, togRun,
                   selfTest>>
    /\ UNCHANGED <<hudVars, unitVars, scn, fed, evals>>

LampNext == LampRender \/ LampAgain \/ LampReset

LampSpec == LampInit /\ [][LampNext]_vars

(***************************************************************************)
(* The cruise harness: the game loop and thread_2 together, from the state *)
(* in which cruise mode is engaged (CTRL+W), the warning light has ended   *)
(* its self-test (its 70th render) and the vehicle drives forward at one   *)
(* of the speeds; no key event arrives.                                    *)
(***************************************************************************)
CruiseInit ==
    /\ g_interrupt = FALSE
    /\ g_player_action = FALSE
    /\ cve = TRUE
    /\ active = TRUE
    /\ velocity \in SpeedValues
    /\ speed = velocity
    /\ distance \in DistValues
    /\ action = 0
    /\ tpc = "L1162"
    /\ mpc = "parse_events"
    /\ playerAlive = TRUE
    /\ brake = 0
    /\ keysHeld = FALSE
    /\ emit = {}
    /\ tones = <<>>
    /\ togRun = <<>>
    /\ selfTest = "none"
    /\ show_info = TRUE
    /\ gear = 0
    /\ reverse = FALSE
    /\ worldRef = "ok"
    /\ zustand = ZUSTAND_WARNUNG_HIGH
    /\ displayChecked = TRUE
    /\ displayCheckedTicker = 7 * ticker
    /\ painted = "none"
    /\ currentAebsDistance = None
    /\ lampCalls = {}
    /\ SensorFresh
    /\ EnvFresh
    /\ VisionFresh
    /\ RestartFresh
    /\ NoHarness

CruiseNext ==
    \/ Drive
    \/ Test_L1162 /\ UNCHANGED scnVars
    \/ Test_L1163 /\ UNCHANGED scnVars
    \/ Test_L1165 /\ UNCHANGED scnVars
    \/ Test_L1168 /\ UNCHANGED scnVars
    \/ Test_L1174 /\ UNCHANGED scnVars
    \/ Test_L1179 /\ UNCHANGED scnVars
    \/ Test_L1182 /\ UNCHANGED scnVars
    \/ EndEvents
    \/ VehicleKeys
    \/ HudTickRender
    \/ Render /\ UNCHANGED scnVars

CruiseSpec == CruiseInit /\ [][CruiseNext]_vars

\* The cruise harness with the F1 key, which hides and shows the info panel.
PanelNext == CruiseNext \/ KeyF1

PanelSpec == CruiseInit /\ [][PanelNext]_vars

(***************************************************************************)
(* The obstacle sensor.  The simulator delivers obstacle events on its     *)
(* sensor thread (__obstacle_callback), while the main thread, inside the  *)
(* warning light's classification (L733-744), calls                        *)
(* getCurrentObstacleDictance.  Every `self.__current_obstacle[...]` of    *)
(* the reader loads the attribute anew, so each is a step of its own and   *)
(* the callback may run between any two of them.                           *)
(***************************************************************************)

\* What the obstacle sensor and its caller leave alone.
sensorRest == <<g_interrupt, g_player_action, cve, active, speed, action, tpc, mpc,
                playerAlive, brake, keysHeld, emit, tones, togRun, selfTest, hudVars, zustand,
                displayChecked, displayCheckedTicker, painted, lampCalls, envVars,
                visionVars, restartVars, scnVars>>

\* The locals of getCurrentObstacleDictance, which end with the call.
readerLocals == <<maxAlter, obsDistance, myTimeStamp, distanceOf, stampOf, atCall>>

\* The freshness test with an inclusive bound.
NotTooOld_Inclusive(t_diff, maxAlterDesHindernissesInMillis) ==
    t_diff <= maxAlterDesHindernissesInMillis

\* L1696: `if (t_diff < maxAlterDesHindernissesInMillis)`
NotTooOld(t_diff, maxAlterDesHindernissesInMillis) ==
    t_diff < maxAlterDesHindernissesInMillis

\* The callback without the test for a static actor.
obstacle_callback_AllEvents ==
    /\ obstacle_sensor_callback_counter < MaxEvents
    /\ obstacle_sensor_callback_counter' = obstacle_sensor_callback_counter + 1
    /\ \E static \in BOOLEAN, event_distance \in ObstacleDistValues :
          /\ event' = [static |-> static, distance |-> event_distance]
          /\ current_obstacle' =
                <<[frame |-> obstacle_sensor_callback_counter',
                   distance |-> event_distance,
                   myTimeStamp |-> clock]>>
    /\ UNCHANGED <<clock, rpc, currentObstacleDistance, readerLocals>>
    /\ UNCHANGED <<distance, currentAebsDistance, sensorRest>>

\* L1746-1751 __obstacle_callback: the counter is incremented; an event whose
\* other actor is not static replaces the record by a new dict, stamped with
\* time.time().  The events' frame numbers are taken to be their ordinal.
obstacle_callback ==
    /\ obstacle_sensor_callback_counter < MaxEvents
    /\ obstacle_sensor_callback_counter' = obstacle_sensor_callback_counter + 1
    /\ \E static \in BOOLEAN, event_distance \in ObstacleDistValues :
          /\ event' = [static |-> static, distance |-> event_distance]
          /\ current_obstacle' =
                IF static
                THEN current_obstacle
                ELSE <<[frame |-> obstacle_sensor_callback_counter',
                        distance |-> event_distance,
                        myTimeStamp |-> clock]>>
    /\ UNCHANGED <<clock, rpc, currentObstacleDistance, readerLocals>>
    /\ UNCHANGED <<distance, currentAebsDistance, sensorRest>>

\* Time passes.
Elapse ==
    /\ \E dt \in TimeSteps :
          /\ (clock + dt) % 1000 <= MaxSeconds
          /\ (clock + dt) \div 1000 <= 1
          /\ clock' = clock + dt
    /\ UNCHANGED <<current_obstacle, event, obstacle_sensor_callback_counter, rpc,
                   currentObstacleDistance, readerLocals>>
    /\ UNCHANGED <<distance, currentAebsDistance, sensorRest>>

\* L733-740: the warning light refreshes AEBS.distance from the vision estimate
\* (get_current_distance: self.distance = g_distance) and calls
\* getCurrentObstacleDictance.
SensorCall ==
    /\ rpc = "idle"
    /\ \E g_distance \in DistValues : distance' = g_distance
    /\ \E m \in MaxAlterValues : maxAlter' = m
    /\ atCall' = current_obstacle
    /\ obsDistance' = None /\ myTimeStamp' = None
    /\ distanceOf' = 0 /\ stampOf' = 0
    /\ currentObstacleDistance' = None
    /\ currentAebsDistance' = None
    /\ rpc' = "L1682"
    /\ UNCHANGED <<current_obstacle, event, obstacle_sensor_callback_counter, clock>>
    /\ UNCHANGED sensorRest

\* L1682: `if len(self.__current_obstacle) > 0:`, else L1704 `return 0.0`
GetObstacle_L1682 ==
    /\ rpc = "L1682"
    /\ IF Len(current_obstacle) > 0
       THEN rpc' = "L1684" /\ UNCHANGED currentObstacleDistance
       ELSE rpc' = "L741" /\ currentObstacleDistance' = 0
    /\ UNCHANGED <<current_obstacle, event, obstacle_sensor_callback_counter, clock,
                   readerLocals>>
    /\ UNCHANGED <<distance, currentAebsDistance, sensorRest>>

\* L1684: distance = self.__current_obstacle['distance'].  (L1683 and L1685-1688
\* read fields the result does not depend on.)  A subscript that raises is
\* caught at L1705 and 0.0 is returned.
GetObstacle_L1684 ==
    /\ rpc = "L1684"
    /\ IF Len(current_obstacle) > 0
       THEN /\ obsDistance' = current_obstacle[1].distance
            /\ distanceOf' = current_obstacle[1].frame
            /\ rpc' = "L1691"
            /\ UNCHANGED currentObstacleDistance
       ELSE /\ currentObstacleDistance' = 0
            /\ rpc' = "L741"
            /\ UNCHANGED <<obsDistance, distanceOf>>
    /\ UNCHANGED <<current_obstacle, event, obstacle_sensor_callback_counter, clock,
                   maxAlter, myTimeStamp, stampOf, atCall>>
    /\ UNCHANGED <<distance, currentAebsDistance, sensorRest>>

\* L1691: myTimeStamp = self.__current_obstacle['myTimeStamp']
GetObstacle_L1691 ==
    /\ rpc = "L1691"
    /\ IF Len(current_obstacle) > 0
       THEN /\ myTimeStamp' = current_obstacle[1].myTimeStamp
            /\ stampOf' = current_obstacle[1].frame
            /\ rpc' = "L1692"
            /\ UNCHANGED currentObstacleDistance
       ELSE /\ currentObstacleDistance' = 0
            /\ rpc' = "L741"
            /\ UNCHANGED <<myTimeStamp, stampOf>>
    /\ UNCHANGED <<current_obstacle, event, obstacle_sensor_callback_counter, clock,
                   maxAlter, obsDistance, distanceOf, atCall>>
    /\ UNCHANGED <<distance, currentAebsDistance, sensorRest>>

\* L1692-1702: timeStamp = time.time(); t_diff = timeStamp - myTimeStamp;
\* the distance is returned if t_diff is below the maximal age, else 0.0.
GetObstacle_L1692 ==
    /\ rpc = "L1692"
    /\ currentObstacleDistance' = IF NotTooOld(clock - myTimeStamp, maxAlter)
                                  THEN obsDistance
                                  ELSE 0
    /\ rpc' = "L741"
    /\ UNCHANGED <<current_obstacle, event, obstacle_sensor_callback_counter, clock,
                   readerLocals>>
    /\ UNCHANGED <<distance, currentAebsDistance, sensorRest>>

\* L741-744: the warning light takes the distance it will compare.
Lamp_L741 ==
    /\ rpc = "L741"
    /\ \E g_least_distance \in LampDistValues :
          currentAebsDistance' =
             currentAebsDistanceOf(currentObstacleDistance, g_least_distance)
    /\ rpc' = "idle"
    /\ maxAlter' = None /\ obsDistance' = None /\ myTimeStamp' = None
    /\ distanceOf' = 0 /\ stampOf' = 0 /\ atCall' = <<>>
    /\ currentObstacleDistance' = None
    /\ UNCHANGED <<current_obstacle, event, obstacle_sensor_callback_counter, clock>>
    /\ UNCHANGED <<distance, sensorRest>>

SensorNext ==
    \/ obstacle_callback
    \/ Elapse
    \/ SensorCall
    \/ GetObstacle_L1682
    \/ GetObstacle_L1684
    \/ GetObstacle_L1691
    \/ GetObstacle_L1692
    \/ Lamp_L741

SensorSpec == Init /\ [][SensorNext]_vars

(***************************************************************************)
(* The envelope harness: the stopping-distance formulas of L757-768,       *)
(* applied to every speed up to MaxSpeed.  (The warning light itself       *)
(* evaluates them only at speeds of activeSpeed and above, L750-755.)      *)
(***************************************************************************)

\* What the envelope harness leaves alone.
envRest == <<g_interrupt, g_player_action, cve, active, speed, distance, action,
             tpc, mpc, playerAlive, brake, keysHeld, emit, tones, togRun, selfTest, hudVars,
             lampVars, sensorVars, visionVars, restartVars, scnVars>>

\* L757-768, for currentAebsSpeed = v
Envelope(v) == [bremsweg |-> bremsweg(v), reaktionsweg |-> reaktionsweg(v),
                anhalteWeg |-> anhalteWeg(v),
                anhalteWegWarnungLow |-> anhalteWegWarnungLow(v),
                anhalteWegWarnungHigh |-> anhalteWegWarnungHigh(v)]

\* The harness takes another speed.
EnvDrive ==
    /\ \E v \in 0..MaxSpeed : v # envSpeed /\ envSpeed' = v
    /\ envelope' = NoEnvelope
    /\ UNCHANGED envRest

\* The harness applies the formulas.
EnvCompute ==
    /\ envelope = NoEnvelope
    /\ envelope' = Envelope(envSpeed)
    /\ UNCHANGED envSpeed
    /\ UNCHANGED envRest

EnvNext == EnvDrive \/ EnvCompute

EnvSpec == Init /\ [][EnvNext]_vars

(***************************************************************************)
(* The vision harness: DistanceSensor.get_distance applied to every        *)
(* semantic image of ImageRows x ImageCols pixels and every lead width.    *)
(* Distances are in thousandths here, and the quotient is cut to a whole   *)
(* number of them.                                                         *)
(***************************************************************************)

\* What the vision harness leaves alone.
visionRest == <<g_interrupt, g_player_action, cve, active, speed, distance, action,
                tpc, mpc, playerAlive, brake, keysHeld, emit, tones, togRun,
                selfTest, hudVars, lampVars, sensorVars, envVars, restartVars,
                scnVars>>

\* L1436-1438: the inner loop over the pixels c..ImageCols of a row, which
\* counts the pixels tagged 10 into vehicle_pixel_count.
RECURSIVE CountRow(_, _, _)
CountRow(layer, c, vehicle_pixel_count) ==
    IF c > ImageCols THEN vehicle_pixel_count
    ELSE CountRow(layer, c + 1,
                  IF layer[c] = 10 THEN vehicle_pixel_count + 1
                  ELSE vehicle_pixel_count)

\* The count of a row added to the running count instead of compared with it.
RECURSIVE CountImage_Total(_, _, _)
CountImage_Total(image, r, percieved_pixel_count) ==
    IF r > ImageRows THEN percieved_pixel_count
    ELSE CountImage_Total(image, r + 1,
                          percieved_pixel_count + CountRow(image[r], 1, 0))

\* L1435-1441: the outer loop over the rows r..ImageRows: percieved_pixel_count
\* becomes the row's count when that is larger.
RECURSIVE CountImage(_, _, _)
CountImage(image, r, percieved_pixel_count) ==
    IF r > ImageRows THEN percieved_pixel_count
    ELSE CountImage(image, r + 1,
                    IF percieved_pixel_count < CountRow(image[r], 1, 0)
                    THEN CountRow(image[r], 1, 0)
                    ELSE percieved_pixel_count)

\* L1431-1451 get_distance: the value returned and the value of g_distance
\* afterwards.
get_distance(image, width) ==
    IF CountImage(image, 1, 0) > 0
    THEN [returned |-> (width * FOCAL_LENGTH) \div CountImage(image, 1, 0),
          g_distance |-> (width * FOCAL_LENGTH) \div CountImage(image, 1, 0)]
    ELSE [returned |-> 0, g_distance |-> 0]

\* The camera delivers another image, of a lead vehicle of some width.
VisionImage ==
    /\ \E image \in [1..ImageRows -> [1..ImageCols -> PixelTags]],
          width \in LeadWidths :
          /\ <<image, width>> # <<semantic_image, lead_width>>
          /\ semantic_image' = image
          /\ lead_width' = width
    /\ vision' = [returned |-> None, g_distance |-> vision.g_distance]
    /\ UNCHANGED visionRest

\* L1367: self.distance = self.get_distance(self.semantic_image)
VisionCompute ==
    /\ vision.returned = None
    /\ vision' = get_distance(semantic_image, lead_width)
    /\ UNCHANGED <<semantic_image, lead_width>>
    /\ UNCHANGED visionRest

VisionNext == VisionImage \/ VisionCompute

VisionSpec == Init /\ [][VisionNext]_vars

(***************************************************************************)
(* The restart harness: the operator restarts the world (Backspace, G) and *)
(* quits, and every thread that World.restart started on AEBS.test runs    *)
(* its outer loop.  What the loop's body does is left to the other         *)
(* specifications; here it ends normally or with an exception.             *)
(***************************************************************************)

\* What the restart harness's own steps leave alone.
restartRest == <<g_player_action, cve, active, speed, distance, action, tpc,
                 playerAlive, brake, keysHeld, emit, tones, togRun, selfTest,
                 hudVars, lampVars, sensorVars, envVars, visionVars, scnVars>>

\* The threads on AEBS.test that have not ended.
RunningLoops == {i \in 1..Len(started) : started[i] \in {"L1161", "L1162"}}

\* L446-452, L466-468: K_BACKSPACE or K_g calls world.restart(), which destroys
\* and respawns the vehicles (L289-294), constructs another AEBS (L327) and
\* starts another thread on its test (L339-340); the thread started before is
\* neither told to stop nor joined.
KeyRestart ==
    /\ mpc = "parse_events"
    /\ Len(started) <= MaxRestarts
    /\ started' = Append(started, "L1161")
    /\ UNCHANGED <<g_interrupt, mpc, joined>>
    /\ UNCHANGED restartRest

\* L1161: while not g_interrupt, in thread i
LoopTest(i) ==
    /\ started[i] = "L1161"
    /\ started' = [started EXCEPT ![i] = IF g_interrupt THEN "exited" ELSE "L1162"]
    /\ UNCHANGED <<g_interrupt, mpc, joined>>
    /\ UNCHANGED restartRest

\* L1162-1185: the body of the outer loop ends, in thread i
LoopBody(i) ==
    /\ started[i] = "L1162"
    /\ started' = [started EXCEPT ![i] = "L1161"]
    /\ UNCHANGED <<g_interrupt, mpc, joined>>
    /\ UNCHANGED restartRest

\* L1165: the body raises (the comparison of a distance that is None), which
\* ends thread i
LoopRaise(i) ==
    /\ started[i] = "L1162"
    /\ started' = [started EXCEPT ![i] = "crashed"]
    /\ UNCHANGED <<g_interrupt, mpc, joined>>
    /\ UNCHANGED restartRest

\* L400-401: self.thread_2.join() waits for the thread started last, and for
\* no other.
JoinThread2 ==
    /\ mpc = "join"
    /\ started[Len(started)] \in {"exited", "crashed"}
    /\ joined' = joined \cup {Len(started)}
    /\ mpc' = "done"
    /\ UNCHANGED <<g_interrupt, started>>
    /\ UNCHANGED restartRest

RestartNext ==
    \/ KeyRestart
    \/ \E i \in 1..Len(started) : LoopTest(i)
    \/ \E i \in 1..Len(started) : LoopBody(i)
    \/ \E i \in 1..Len(started) : LoopRaise(i)
    \/ Quit
    \/ Destroy
    \/ Del
    \/ JoinThread2

RestartSpec == Init /\ [][RestartNext]_vars

(***************************************************************************)
(* The claims.  A step of thread_2 is a step that moves tpc; emit' is what *)
(* that step played or commanded.                                          *)
(***************************************************************************)
VehicleCalls == {"disable_cv", "brake1", "brake0"}
Escalations  == {"beep", "beep_beep", "disable_cv", "brake1"}

\* C1: with distance = 0 (the no-obstacle reading) and no driver override, a
\* step of the evaluation loop plays no alert, does not disengage cruise
\* mode, commands no full brake and does not advance the stage.
C1_ZeroDistanceNeverTriggers ==
    [][(tpc' # tpc /\ distance = 0 /\ ~g_player_action)
          => (emit' \cap Escalations = {} /\ action' <= action)]_vars

\* C2: observing the readings 5, 3.5, 2.5, 1.5, one per evaluation, at a
\* speed at or above the activation speed, the stage after the first, second,
\* third and fourth evaluation is Idle, Alerting, Braking-pending, Holding;
\* within an evaluation it is the previous stage or the next one, so no stage
\* is skipped and none is taken back.
ClaimedReadings == <<50, 35, 25, 15>>

C2_MonotonicEscalation ==
    (scn = ClaimedReadings /\ speed >= ActivationSpeed) =>
        /\ evals = 0 => action = 0
        /\ evals >= 1 => action \in {evals - 1, evals}
        /\ (evals >= 1 /\ tpc \in {"L1162", "L1163"}) => action = evals - 1
        /\ evals <= Len(ClaimedReadings)

C2_Witness ==
    /\ scn = ClaimedReadings /\ speed >= ActivationSpeed
    /\ evals = Len(ClaimedReadings) /\ action = 3 /\ tpc = "L1163" /\ ~cve

\* C3: the stage is always one of 0..3, and every change of it is an advance
\* by exactly one or a reset to Idle; a reset happens only under the driver
\* override or from Holding at speed 0.
C3_StageSteps ==
    [][/\ action' \in 0..3
       /\ action' # action =>
             \/ action' = action + 1
             \/ action' = 0 /\ (g_player_action \/ (action = 3 /\ speed = 0))]_vars

C3_Witness == emit = {"brake0"} /\ action = 0 /\ tpc = "L1182" /\ mpc \in GameLoopPcs

\* C4: a step of AEBS.test commands the full brake only at stage
\* Braking-pending with distance < 2 and no driver override, and that step
\* also disengages cruise mode and sets the stage to Holding.
C4_FullBrakeOnly ==
    [][(tpc' # tpc /\ "brake1" \in emit') =>
          /\ action = 2 /\ distance # None /\ distance < 20 /\ ~g_player_action
          /\ "disable_cv" \in emit'
          /\ cve' = FALSE
          /\ action' = 3]_vars

C4_Witness ==
    /\ emit = {"disable_cv", "brake1"} /\ action = 3 /\ ~cve /\ brake = 1
    /\ tpc = "L1179"

\* C5: once the stage is Holding and the tracked speed is 0, with no driver
\* override, the stage is eventually reset to Idle (or the speed rises again,
\* or the game loop is left, or the thread has ended).
C5_HoldingReleased ==
    (action = 3 /\ speed = 0 /\ ~g_player_action /\ mpc \in GameLoopPcs /\ ~ThreadEnded)
        ~> (action = 0 \/ speed # 0 \/ mpc \notin GameLoopPcs \/ ThreadEnded)

\* C6: when the loop evaluates its override check (L1182) while the driver
\* holds a throttle or steering key and the stage is not Idle, the stage is
\* reset to Idle.
C6_OverrideResets ==
    [][(tpc = "L1182" /\ tpc' # tpc /\ keysHeld /\ action # 0) => action' = 0]_vars

\* C7: while the Supervisor is inactive, a step of the loop (here with an
\* obstacle reading, distance > 0) neither advances the stage nor plays an
\* alert nor disengages cruise mode nor commands the full brake.
C7_InactiveNoEscalation ==
    [][(tpc' # tpc /\ ~active /\ distance > 0) =>
          (action' <= action /\ emit' \cap Escalations = {})]_vars

\* C8: once g_interrupt is set, thread_2 eventually ends.
C8_ShutdownTerminates == g_interrupt ~> ThreadEnded

\* C9: no step of AEBS.test calls apply_control or disable_constant_velocity
\* on a player vehicle that World.destroy has destroyed.
C9_NoCallOnDestroyedVehicle ==
    [][(tpc' # tpc /\ emit' \cap VehicleCalls # {}) => playerAlive]_vars

\* C10: a call of toggle_aebs flips AEBS.active, and two calls in a row give
\* back the value before the first.
C10_ToggleTwice ==
    /\ Len(togRun) >= 1 => active = ~togRun[Len(togRun)]
    /\ Len(togRun) = 2 => active = togRun[1]

C10_Witness == togRun = <<FALSE, TRUE>> /\ active = FALSE

(***************************************************************************)
(* The claims about the warning light.  A render is a step that leaves     *)
(* mpc = "render"; painted', zustand', currentAebsDistance' and lampCalls' *)
(* are what that render drew, classified, compared and called.             *)
(***************************************************************************)
RenderStep == mpc = "render" /\ mpc' # mpc

\* C11: a frame of the game loop (parse_events, World.tick, World.render)
\* during which the vehicle's speed is at or above the activation speed ends
\* with the supervisor active, whatever the HUD and the warning light show.
C11_AutoActivation ==
    [][(RenderStep /\ velocity >= ActivationSpeed) => active']_vars

\* C12: a derived-mode render with the supervisor active, the forward gear
\* and a speed v >= 15 classifies the distance d it uses as follows, with
\* stop = ((v/10)^2 + (v/10)*3) / 2: Ready if d <= 0, WarnHigh if
\* 0 < d <= 1.2 * stop, WarnLow if 1.2 * stop < d <= 1.5 * stop, Ready beyond.
\* With d in tenths, stop is (v*v + 30*v) / 20, so d <= 1.2 * stop reads
\* 100 * d <= 6 * (v*v + 30*v) and d <= 1.5 * stop reads
\* 200 * d <= 15 * (v*v + 30*v).
C12_Claimed(v, d) ==
    IF d <= 0 THEN ZUSTAND_INIT
    ELSE IF 100 * d <= 6 * (v * v + 30 * v) THEN ZUSTAND_WARNUNG_HIGH
    ELSE IF 200 * d <= 15 * (v * v + 30 * v) THEN ZUSTAND_WARNUNG_LOW
    ELSE ZUSTAND_INIT

C12_Classification ==
    [][(/\ RenderStep /\ displayChecked /\ worldRef = "ok"
        /\ active /\ ~reverse /\ velocity >= 15)
          => (/\ currentAebsDistance' # None
              /\ zustand' = C12_Claimed(speed', currentAebsDistance'))]_vars

C12_Witness ==
    /\ painted = "derived" /\ active /\ ~reverse /\ speed = 20
    /\ currentAebsDistance = 75 /\ zustand = ZUSTAND_WARNUNG_LOW
    /\ mpc = "parse_events"

\* C13: a derived-mode render with the supervisor known and active and a
\* speed that is 0 or below the activation threshold classifies Ready, in
\* every gear and at every distance.
C13_SlowIsReady ==
    [][(/\ RenderStep /\ displayChecked /\ worldRef = "ok"
        /\ active /\ (velocity = 0 \/ velocity < 15))
          => zustand' = ZUSTAND_INIT]_vars

\* C14: a derived-mode render of a light whose world, or whose world's
\* supervisor, is unset classifies Fault, calls no method of the supervisor,
\* the sensor or the vehicle, and returns, so the next frame renders again.
C14_UnsetIsFault ==
    [][(RenderStep /\ displayChecked /\ worldRef \in {"none", "no_aebs"})
          => (/\ zustand' = ZUSTAND_ERROR
              /\ painted' = "derived"
              /\ lampCalls' = {}
              /\ UNCHANGED <<active, speed, distance, action>>
              /\ mpc' = "parse_events")]_vars

C14_Witness ==
    /\ worldRef = "no_aebs" /\ zustand = ZUSTAND_ERROR /\ painted = "derived"
    /\ lampCalls = {} /\ frames > ticker * 7 /\ mpc = "parse_events"

\* C15: a derived-mode render with the supervisor known classifies Disengaged
\* if the supervisor is inactive, and only then.
C15_DisengagedIffInactive ==
    [][(RenderStep /\ displayChecked /\ worldRef = "ok")
          => (zustand' = ZUSTAND_AUS <=> ~active)]_vars

\* C16: the self-test of a fresh or reset light shows NotInitialized, Fault,
\* Ready, Disengaged, WarnLow, WarnHigh, NotInitialized, each for the same
\* number n of frames: when the light switches to derived mode, it has shown
\* these seven steps in this order, the last state shown is NotInitialized,
\* and the renders so far are 7 * n for some n.
C16_ClaimedSteps ==
    <<ZUSTAND_NOT_INIT, ZUSTAND_ERROR, ZUSTAND_INIT, ZUSTAND_AUS,
      ZUSTAND_WARNUNG_LOW, ZUSTAND_WARNUNG_HIGH, ZUSTAND_NOT_INIT>>

C16_SelfTestOrder ==
    [][(~displayChecked /\ displayChecked')
          => (/\ visited = C16_ClaimedSteps
              /\ zustand = ZUSTAND_NOT_INIT
              /\ \E n \in 1..MaxFrames : frames = Len(C16_ClaimedSteps) * n)]_vars

\* C17: the renders of a fresh light show the lamp states NotInitialized,
\* Fault, Ready, Disengaged, WarnLow, WarnHigh in this order, all of them by
\* the time the self-test is done, and after 100 renders the self-test is
\* done and the frame drawn is a classified one.
NonCrashOrder ==
    <<ZUSTAND_NOT_INIT, ZUSTAND_ERROR, ZUSTAND_INIT, ZUSTAND_AUS,
      ZUSTAND_WARNUNG_LOW, ZUSTAND_WARNUNG_HIGH>>

IsPrefix(p, q) == Len(p) <= Len(q) /\ \A i \in 1..Len(p) : p[i] = q[i]

C17_HundredFrames ==
    /\ IsPrefix(visited, NonCrashOrder)
    /\ displayChecked => visited = NonCrashOrder
    /\ frames >= 100 => (displayChecked /\ painted = "derived")

C17_Witness ==
    /\ resets = 0 /\ frames = 100 /\ displayChecked /\ painted = "derived"
    /\ visited = NonCrashOrder

\* C18: once the self-test is done, every render is a classified one until
\* reset is called; reset puts the light back to its first self-test step, and
\* the renders after it show the self-test from its first state on, all of
\* it before derived mode comes back.
C18_OneShot ==
    [][/\ (displayChecked /\ RenderStep) => (displayChecked' /\ painted' = "derived")
       /\ (resets' # resets) => (~displayChecked' /\ displayCheckedTicker' = 1)
       /\ (resets > 0 /\ RenderStep /\ ~displayChecked)
             => (/\ painted' # "derived"
                 /\ IsPrefix(visited', NonCrashOrder)
                 /\ displayChecked' => visited' = NonCrashOrder)]_vars

C18_Witness ==
    /\ resets > 0 /\ displayChecked /\ painted = "derived"
    /\ visited = NonCrashOrder /\ frames > ticker * 7

\* C19: every step that changes AEBS.active (the U key's toggle_aebs or the
\* one of activate_at_speed) also resets the warning light: after it the
\* self-test is not done and the ticker is 1.
C19_ToggleResets ==
    [][(active' # active) => (~displayChecked' /\ displayCheckedTicker' = 1)]_vars

\* C20: no render of the self-test shows Crash, at any frame and after any
\* number of resets.
C20_NoCrashInSelfTest ==
    (~displayChecked \/ painted # "derived") => zustand # ZUSTAND_UNFALL

C20_Witness ==
    /\ resets = MaxResets /\ displayChecked /\ painted = "none"
    /\ zustand = ZUSTAND_WARNUNG_HIGH

(***************************************************************************)
(* The obstacle sensor and the distance the warning light compares.        *)
(***************************************************************************)

\* getCurrentObstacleDictance returns to the warning light.
SensorReturn == rpc \in {"L1682", "L1684", "L1691", "L1692"} /\ rpc' = "L741"

\* The record has not been replaced since the call began.
SameRecord == current_obstacle = atCall

\* C21: when the obstacle sensor's observation is older than the maximal age
\* and the vision estimate gave a distance (AEBS.distance > 0), the distance
\* the warning light compares is AEBS.distance.
C21_StalenessFallback ==
    [][(/\ rpc = "L741" /\ rpc' = "idle"
        /\ SameRecord
        /\ Len(atCall) > 0
        /\ clock - atCall[1].myTimeStamp >= maxAlter
        /\ distance > 0)
       => currentAebsDistance' = distance]_vars

\* What the claim says a call returns, for the record of the call and the time
\* of the return.
C22_Claimed ==
    IF Len(atCall) > 0 /\ clock - atCall[1].myTimeStamp < maxAlter
    THEN atCall[1].distance
    ELSE 0

\* C22: getCurrentObstacleDictance(max_age) returns the stored observation's
\* distance exactly when an observation exists and now - observed_at < max_age,
\* and 0.0 otherwise (no observation, or one that is too old); every call
\* returns.  Stated for the calls during which the record is not replaced.
C22_SensorContract ==
    [][(SensorReturn /\ SameRecord) => currentObstacleDistance' = C22_Claimed]_vars

\* A call has returned the distance of an observation made before `now`.
C22_Witness ==
    /\ rpc = "L741"
    /\ SameRecord
    /\ Len(atCall) > 0
    /\ clock > atCall[1].myTimeStamp
    /\ currentObstacleDistance = atCall[1].distance

\* C23: under any interleaving of the obstacle callback with
\* getCurrentObstacleDictance, the distance the reader holds and the timestamp
\* it checks come from the same observation.
C23_NoTornRead == rpc = "L1692" => distanceOf = stampOf

\* C24: a render of the warning light, in self-test or in derived mode, changes
\* neither the supervisor's active flag nor its stage.
C24_RenderKeepsSupervisor ==
    [][RenderStep => (active' = active /\ action' = action)]_vars

\* A derived-mode render has refreshed the supervisor's speed, at 20 km/h.
C24_Witness ==
    /\ mpc = "parse_events"
    /\ painted = "derived"
    /\ "get_current_speed" \in lampCalls
    /\ speed = 20
    /\ active

\* C25: after a failed self-test of the supervisor, the supervisor is inactive
\* and a classification of the warning light shows Fault.
C25_SelfTestFailure ==
    selfTest = "failed" =>
        /\ ~active
        /\ painted = "derived" => zustand = ZUSTAND_ERROR

(***************************************************************************)
(* The stopping-distance formulas.                                         *)
(***************************************************************************)

\* C26, as claimed: for every speed v >= 0 the high-urgency threshold is
\* strictly below the low-urgency threshold.
C26_StrictOrderFromZero ==
    envelope # NoEnvelope =>
        envelope.anhalteWegWarnungHigh < envelope.anhalteWegWarnungLow

\* C26, amended: for every speed v > 0 the high-urgency threshold is strictly
\* below the low-urgency threshold.
C26_StrictOrder ==
    (envelope # NoEnvelope /\ envSpeed > 0) =>
        envelope.anhalteWegWarnungHigh < envelope.anhalteWegWarnungLow

\* The thresholds at 20 km/h: 6.0 and 7.5.
C26_Witness ==
    /\ envSpeed = 20
    /\ envelope.anhalteWegWarnungHigh = 60000
    /\ envelope.anhalteWegWarnungLow = 75000

\* C27: at v = 0 the braking, reaction and stopping distances and both
\* thresholds are 0.
C27_ZeroAtStandstill ==
    (envelope # NoEnvelope /\ envSpeed = 0) =>
        /\ envelope.bremsweg = 0
        /\ envelope.reaktionsweg = 0
        /\ envelope.anhalteWeg = 0
        /\ envelope.anhalteWegWarnungLow = 0
        /\ envelope.anhalteWegWarnungHigh = 0

\* The formulas have been applied to speed 0.
C27_Witness == envSpeed = 0 /\ envelope = Envelope(0)

(***************************************************************************)
(* The two components together, and cruise mode.                           *)
(***************************************************************************)

\* The supervisor sees the scenario of C28: active, cruise mode engaged, no
\* driver override, 20 km/h and a distance of 1.8.
C28_Scenario ==
    /\ active /\ cve /\ ~g_player_action
    /\ speed = 20
    /\ distance = 18

\* C28: at 20 km/h and a distance of 1.8, with the supervisor active, forward
\* gear, cruise mode engaged and no driver override, a classification of the
\* warning light gives WarnHigh, and the background loop takes the stage from
\* Idle to Alerting and from Alerting to Braking-pending.
C28_WarnHighAndBraking ==
    [][/\ (/\ RenderStep /\ painted' = "derived"
           /\ active /\ ~reverse /\ speed' = 20 /\ currentAebsDistance' = 18)
          => zustand' = ZUSTAND_WARNUNG_HIGH
       /\ (C28_Scenario /\ tpc = "L1165" /\ tpc' # tpc /\ action = 0) => action' = 1
       /\ (C28_Scenario /\ tpc = "L1168" /\ tpc' # tpc /\ action = 1) => action' = 2
      ]_vars

\* The warning light shows WarnHigh for 1.8 and the loop has just made the
\* stage Braking-pending.
C28_Witness ==
    /\ C28_Scenario
    /\ ~reverse
    /\ painted = "derived" /\ currentAebsDistance = 18
    /\ zustand = ZUSTAND_WARNUNG_HIGH
    /\ tpc = "L1174" /\ action = 2 /\ emit = {"beep_beep"}

\* C29: an iteration of the background loop that finds cruise mode off at its
\* test of L1163 ends there: it changes no stage, plays no alert and commands
\* the vehicle nothing.
C29_NoEvaluationWithoutCruise ==
    [][(tpc = "L1163" /\ tpc' # tpc /\ ~cve)
       => /\ tpc' = "L1162"
          /\ action' = action
          /\ brake' = brake
          /\ emit' = {}]_vars

\* The loop is back at its outer test in stage Holding, cruise mode off, with
\* a reading of 1.5 and no driver override.
C29_Witness ==
    /\ tpc = "L1162" /\ ~cve
    /\ action = 3 /\ emit = {}
    /\ distance = 15 /\ ~g_player_action

\* C30: CTRL+W toggles cruise mode both ways, and event processing goes on.
C30_CtrlWToggles ==
    [][KeyCtrlW => (cve' = ~cve /\ mpc' = "parse_events")]_vars

(***************************************************************************)
(* Warning, intervention and the driver.                                   *)
(***************************************************************************)

\* C31: every full-brake command of AEBS.test is preceded, since the stage was
\* last Idle, by the first alert tone and then the double alert tone.
C31_WarningBeforeBrake ==
    [][(tpc' # tpc /\ "brake1" \in emit') => tones = <<"beep", "beep_beep">>]_vars

\* The full brake has been commanded, after both tones.
C31_Witness ==
    /\ tpc = "L1179" /\ "brake1" \in emit
    /\ action = 3
    /\ tones = <<"beep", "beep_beep">>

\* C32, as claimed: once the operator has toggled the supervisor off, it stays
\* off, at any speed, until the operator toggles again (key U), and a
\* classification of the warning light meanwhile gives Disengaged.
C32_ToggleOffHolds ==
    [][/\ (~active /\ active') => KeyU
       /\ (RenderStep /\ painted' = "derived" /\ ~active) => zustand' = ZUSTAND_AUS
      ]_vars

\* C32, amended: once toggled off, the supervisor stays off until the operator
\* toggles again or the vehicle is seen at the activation speed or above, and a
\* classification of the warning light meanwhile gives Disengaged.
C32_ToggleOffHoldsWhenSlow ==
    [][/\ (~active /\ active') => (KeyU \/ velocity >= ActivationSpeed)
       /\ (RenderStep /\ painted' = "derived" /\ ~active) => zustand' = ZUSTAND_AUS
      ]_vars

\* Toggled off at 10 km/h, the supervisor is still off when the warning light,
\* its self-test over, classifies.
C32_Witness ==
    /\ mpc = "parse_events"
    /\ ~active /\ velocity = 10 /\ speed = 10
    /\ painted = "derived" /\ zustand = ZUSTAND_AUS

\* C33: when the operator holds a throttle or steering key in
\* _parse_vehicle_keys, the driver-override flag g_player_action that the
\* background loop reads becomes true.
C33_KeysSetOverride ==
    [][(mpc = "vehicle_keys" /\ mpc' # mpc /\ keysHeld') => g_player_action']_vars

(***************************************************************************)
(* The obstacle sensor, as the warning light uses it.                      *)
(***************************************************************************)

\* C34: getCurrentObstacleDictance(1000), the warning light's call, returns
\* 0.0 for every observation that is more than one second old.
C34_OneSecondOld ==
    [][(/\ SensorReturn /\ SameRecord
        /\ maxAlter = 1000
        /\ Len(atCall) > 0
        /\ clock - atCall[1].myTimeStamp > 1)
       => currentObstacleDistance' = 0]_vars

\* A step of __obstacle_callback.
CallbackStep ==
    obstacle_sensor_callback_counter' = obstacle_sensor_callback_counter + 1

\* C35: an obstacle event whose other actor is static leaves the record as it
\* is; every other event replaces the whole record by that event's distance
\* and the current time.
C35_CallbackFrame ==
    [][CallbackStep =>
         IF event'.static
         THEN current_obstacle' = current_obstacle
         ELSE /\ Len(current_obstacle') = 1
              /\ current_obstacle'[1].distance = event'.distance
              /\ current_obstacle'[1].myTimeStamp = clock
              /\ current_obstacle'[1].frame = obstacle_sensor_callback_counter'
      ]_vars

\* A static event has arrived after an accepted one, later on the clock, and
\* the record is still the first event's.
C35_Witness ==
    /\ event.static
    /\ obstacle_sensor_callback_counter = 2
    /\ Len(current_obstacle) = 1
    /\ current_obstacle[1].frame = 1
    /\ current_obstacle[1].myTimeStamp < clock

\* The number of pixels tagged as vehicle in row r of an image.
VehiclePixelsInRow(image, r) == Cardinality({c \in 1..ImageCols : image[r][c] = 10})

\* The largest of the rows' numbers of vehicle pixels.
MaxPerRow(image) ==
    CHOOSE m \in {VehiclePixelsInRow(image, r) : r \in 1..ImageRows} :
        \A r \in 1..ImageRows : VehiclePixelsInRow(image, r) <= m

\* C36: after get_distance has run on an image, the pixel count it used is the
\* maximum over the rows of the number of vehicle-tagged pixels in the row: when
\* that maximum is 0 it has returned 0 and g_distance is 0, otherwise it has
\* returned width * FOCAL_LENGTH / maximum and g_distance is the same value.
C36_MaxPerRow ==
    vision.returned # None =>
        IF MaxPerRow(semantic_image) = 0
        THEN vision.returned = 0 /\ vision.g_distance = 0
        ELSE /\ vision.returned =
                    (lead_width * FOCAL_LENGTH) \div MaxPerRow(semantic_image)
             /\ vision.g_distance = vision.returned

\* get_distance has run on an image with two vehicle pixels in one row and one
\* in the other: three in total, and the distance is that of two.
C36_Witness ==
    /\ vision.returned # None
    /\ VehiclePixelsInRow(semantic_image, 1) = 2
    /\ VehiclePixelsInRow(semantic_image, 2) = 1
    /\ vision.returned = (lead_width * FOCAL_LENGTH) \div 2

\* C37: whenever thread_2 evaluates a distance threshold of AEBS.test (the
\* tests of L1165, L1168 and L1174), AEBS.distance holds a number, not the
\* None of AEBS.__init__.
C37_DistanceIsNumber ==
    [][(tpc \in {"L1165", "L1168", "L1174"} /\ tpc' # tpc) => distance # None]_vars

\* C38: at any time at most one thread is running the background loop
\* AEBS.test.
C38_OneLoop == Cardinality(RunningLoops) <= 1

\* C38, its last part: once the shutdown is through, every thread that was
\* started on AEBS.test has been joined.
C38_AllJoined == mpc = "done" => joined = 1..Len(started)

\* C39: while the stage is Holding (action = 3) and the brake command in effect
\* on the vehicle is the full brake, a step in which the driver holds no key
\* takes the full brake away only if it is thread_2's release (brake=0 at
\* L1179-1181).
C39_BrakeHeld ==
    [][(action = 3 /\ brake = 1 /\ brake' # 1 /\ ~keysHeld')
          => (tpc' # tpc /\ "brake0" \in emit')]_vars

\* C40: the distance the warning light compares with its thresholds is the
\* supervisor's distance, up to one frame of staleness.  In a frame whose
\* HUD.tick returned early (info panel hidden) AEBS.distance has had two values
\* since the render of the frame before: the one that render left and the one
\* this render refreshes it to (L733); the distance a classifying render
\* compares is one of the two.
C40_SameDistance ==
    [][(/\ RenderStep
        /\ ~show_info
        /\ displayChecked = TRUE
        /\ ~worldIsNone(worldRef) /\ ~aebsIsNone(worldRef)
        /\ active = TRUE)
       => currentAebsDistance' \in {distance, distance'}]_vars

====
